---- MODULE Spec2Model ----
(***************************************************************************)
(* Model of MainHelper.establishServiceWorkerChannel                       *)
(* (src/src/helpers/MainHelper.ts): the binding of the service-worker      *)
(* command channel and the four command handlers it installs.              *)
(*                                                                         *)
(* JavaScript runs one task at a time, so every action below is one task   *)
(* (or one task plus the microtasks it schedules): the synchronous part    *)
(* of a handler up to its first real suspension.  The NotificationClicked  *)
(* handler is async and suspends at the proxy-frame reply (line 154) and   *)
(* at Database.put (line 197); each suspension is a position ("pc") of     *)
(* that handler invocation.                                                *)
(*                                                                         *)
(* Two more functions of the file are modelled, each under a specification *)
(* of its own: checkAndTriggerNotificationPermissionChanged (lines 85-99,  *)
(* SpecPermission) and showNotifyButton (lines 101-125, SpecNotifyButton). *)
(* SpecLocal is the channel outside the proxy frame with every             *)
(* Database.put settling; SpecRebind is the channel in the proxy frame     *)
(* with each binding noted on the dispatches in flight.                    *)
(***************************************************************************)
EXTENDS Integers, Sequences, FiniteSets, TLC

\* ---------------------------------------------------------------- bounds
MaxCommands  == 2   \* commands the service worker sends in one behaviour
MaxListeners == 1   \* largest listener count (local registry and proxy reply)
MaxBinds     == 2   \* calls of establishServiceWorkerChannel in one behaviour
MaxNow       == 0   \* largest value Date.now() returns
MaxChecks    == 2   \* calls of checkAndTriggerNotificationPermissionChanged
MaxChanges   == 1   \* changes of the browser's notification permission
MaxShowCalls == 3   \* calls of showNotifyButton

\* ------------------------------------------------------------- vocabulary
\* WorkerMessengerCommand members used at lines 146, 151, 203, 213.
NotificationDisplayed == "NotificationDisplayed"
NotificationClicked   == "NotificationClicked"
RedirectPage          == "RedirectPage"
NotificationDismissed == "NotificationDismissed"
WorkerMessengerCommand ==
    {NotificationDisplayed, NotificationClicked, RedirectPage, NotificationDismissed}

\* WindowEnvironmentKind: the member line 153 compares with, and one of the
\* others, which the code does not tell apart.
OneSignalProxyFrame == "OneSignalProxyFrame"
Host                == "Host"
WindowEnvironmentKind == {Host, OneSignalProxyFrame}

\* OneSignal.EVENTS members passed to Event.trigger (lines 148, 199, 214).
NOTIFICATION_DISPLAYED == "NOTIFICATION_DISPLAYED"
NOTIFICATION_CLICKED   == "NOTIFICATION_CLICKED"
NOTIFICATION_DISMISSED == "NOTIFICATION_DISMISSED"

\* OneSignal.POSTMAM_COMMANDS members sent to the controlling frame (158, 209).
GET_EVENT_LISTENER_COUNT       == "GET_EVENT_LISTENER_COUNT"
SERVICEWORKER_COMMAND_REDIRECT == "SERVICEWORKER_COMMAND_REDIRECT"

\* The values data.url can take: absent (undefined), the empty string, a URL.
Undefined   == "<undefined>"
TargetUrl   == "https://example.com/target"
PayloadUrls == {Undefined, "", TargetUrl}

\* location.href of the context the handler runs in (line 195): the proxy
\* frame's own document when the context is the proxy frame, else the page's.
PageHref       == "https://example.com/page"
ProxyFrameHref == "https://example.os.tc/webPushIframe"
LocationHref(env) == IF env = OneSignalProxyFrame THEN ProxyFrameHref ELSE PageHref
\* The document URL of the frame a proxy frame is embedded in.
ControllingFrameHref == PageHref

\* Positions of one handler invocation.
Unhandled  == "unhandled"    \* no handler was registered for the command
AwaitReply == "awaitReply"   \* line 154: awaiting the promise the reply resolves
NoResolver == "noResolver"   \* line 154: awaiting a promise nothing can resolve
AwaitPut   == "awaitPut"     \* line 197: awaiting Database.put
Fulfilled  == "fulfilled"    \* the handler returned
Rejected   == "rejected"     \* the async handler's promise rejected
Unassigned == -1             \* clickedListenerCallbackCount before assignment

VARIABLES
    windowEnv,     \* SdkEnvironment.getWindowEnv()
    proxyFrame,    \* whether OneSignal.proxyFrame is set
    listeners,     \* OneSignal.getListeners(NOTIFICATION_CLICKED).length
    handlers,      \* workerMessenger's handlers: command kind -> sequence of callbacks
    bindCount,     \* calls of establishServiceWorkerChannel so far
    commands,      \* commands delivered so far, in arrival order, each with
                   \* whether a bind preceded it
    dispatch,      \* dispatch[i]: the handler invocation for commands[i]
    events,        \* Event.trigger calls, in order
    putCalls,      \* Database.put('NotificationOpened', ...) calls, in order
    inbox,         \* entries stored in 'NotificationOpened'
    proxyMessages, \* proxyFrame.messenger.message calls, in order
    now,           \* last value Date.now() returned
    storedPermission,  \* 'notificationPermission' in the 'Options' store
    currentPermission, \* the browser's notification permission
    permissionChanges, \* changes of the browser's permission so far
    checks,        \* checks[k]: the k-th call of
                   \* checkAndTriggerNotificationPermissionChanged
    isBrowser,     \* Environment.isBrowser()
    displayPredicate, \* userConfig.notifyButton.displayPredicate
    notifyButton,  \* whether OneSignal.notifyButton is set
    buttonCalls    \* buttonCalls[j]: the j-th call of showNotifyButton

permissionVars == <<storedPermission, currentPermission, permissionChanges, checks>>
buttonVars == <<isBrowser, displayPredicate, notifyButton, buttonCalls>>
channelVars == <<windowEnv, proxyFrame, listeners, handlers, bindCount, commands,
                 dispatch, events, putCalls, inbox, proxyMessages, now>>

vars == <<channelVars, permissionVars, buttonVars>>

\* Notification permissions (lines 87-88) and the positions of a call of
\* checkAndTriggerNotificationPermissionChanged.
PermissionDefault == "default"
PermissionGranted == "granted"
PermissionDenied  == "denied"
NotificationPermission == {PermissionDefault, PermissionGranted, PermissionDenied}
Unread      == "<unread>"
Reading     == "reading"       \* in Promise.all, lines 86-89
Triggering  == "triggering"    \* triggerNotificationPermissionChanged pending, line 91
Putting     == "putting"       \* Database.put of lines 92-95 pending
Done        == "done"

\* displayPredicate (line 110) and what the promise of line 112 resolves to.
PredicateFunction == "function"
PredicateTrue  == "true"
PredicateFalse == "false"
PredicateValues == {PredicateTrue, PredicateFalse, Undefined}
\* Positions of a call of showNotifyButton.
Skipped        == "skipped"         \* the guard of line 102 failed
AwaitPredicate == "awaitPredicate"  \* line 112, before the then callback
Created        == "created"         \* lines 114-115 or 121-122 ran
Declined       == "declined"        \* line 117

\* ------------------------------------------------ collaborators (not in src/)
\* WorkerMessenger.off(): detaches every handler.
WorkerMessengerOff(h) == [k \in WorkerMessengerCommand |-> <<>>]

\* WorkerMessenger.on(command, callback): one handler per command kind; a
\* second registration for the same kind replaces the first.
WorkerMessengerOn(h, command, callback) == [h EXCEPT ![command] = <<callback>>]

\* Variant: the store is keyed by url; an entry replaces the one that has
\* its url.
DatabasePutKeyedByUrl(store, entry) ==
    Append(SelectSeq(store, LAMBDA e : e.url # entry.url), entry)

\* Database.put('NotificationOpened', entry): appends the entry.
DatabasePut(store, entry) == Append(store, entry)

\* ------------------------------------------------------------ pure helpers
\* The callback a call of establishServiceWorkerChannel registers for a kind:
\* the closure of lines 146, 151, 203 or 213 created by the bind-th call.
Callback(command, bind) == [handles |-> command, bind |-> bind]

\* Variant: the last registration is made under the wrong command kind.
EstablishedHandlersMisregistered(h, bind) ==
    LET h0 == WorkerMessengerOff(h)
        h1 == WorkerMessengerOn(h0, NotificationDisplayed,
                                Callback(NotificationDisplayed, bind))
        h2 == WorkerMessengerOn(h1, NotificationClicked,
                                Callback(NotificationClicked, bind))
        h3 == WorkerMessengerOn(h2, RedirectPage, Callback(RedirectPage, bind))
    IN  WorkerMessengerOn(h3, NotificationDisplayed,
                          Callback(NotificationDismissed, bind))

\* Lines 142-216 as a function of the handler table: off(), then four on().
EstablishedHandlers(h, bind) ==
    LET h0 == WorkerMessengerOff(h)
        h1 == WorkerMessengerOn(h0, NotificationDisplayed,
                                Callback(NotificationDisplayed, bind))
        h2 == WorkerMessengerOn(h1, NotificationClicked,
                                Callback(NotificationClicked, bind))
        h3 == WorkerMessengerOn(h2, RedirectPage, Callback(RedirectPage, bind))
    IN  WorkerMessengerOn(h3, NotificationDismissed,
                          Callback(NotificationDismissed, bind))

\* JavaScript's !url for the values data.url takes (line 193): undefined and
\* the empty string are falsy.
Falsy(url) == url = Undefined \/ url = ""

\* Variant: the document URL is used whatever the payload carries.
ClickedUrlAlwaysLocation(data, env) == LocationHref(env)

\* Variant: a missing url is replaced by the controlling frame's URL.
ClickedUrlControllingFrame(data, env) ==
    IF Falsy(data.url) THEN ControllingFrameHref ELSE data.url

\* Lines 192-196: the url of the entry to store.
ClickedUrl(data, env) == IF Falsy(data.url) THEN LocationHref(env) ELSE data.url

\* Line 197: the object handed to Database.put.
InboxEntry(data, env, t) ==
    [url |-> ClickedUrl(data, env), data |-> data, timestamp |-> t]

\* Variant: a single listener is treated like none.
NoListenersAtMostOne(count) == count <= 1

\* Line 170: store the click instead of broadcasting it.
NoListeners(count) == count = 0

\* Variant: the failure is caught and the handler returns normally.
PutFailureSwallowed == Fulfilled

\* Line 197: an awaited Database.put that rejects makes the async handler's
\* own promise reject; nothing catches it.
PutFailureOutcome == Rejected

\* The payload of the i-th command; id tells the payloads of different
\* commands apart.
Payload(i, url) == [id |-> i, url |-> url]

\* A handler invocation that has not resolved a listener count.  reply is
\* the count the controlling frame replied, put the position in putCalls of
\* the Database.put it issued, putFailed whether that put failed, rebound
\* whether establishServiceWorkerChannel ran while it awaited the reply
\* (noted only under SpecRebind).
NewDispatch(pc) ==
    [pc |-> pc, count |-> Unassigned, reply |-> Unassigned, put |-> 0,
     putFailed |-> FALSE, rebound |-> FALSE]

\* dispatch with record d at position i (i is at most one past the end).
SetAt(s, i, d) == IF i = Len(s) + 1 THEN Append(s, d) ELSE [s EXCEPT ![i] = d]

\* ------------------------------------------------------------------- Init
\* The state after construction: a WorkerMessenger with no handlers, nothing
\* delivered.  The window environment, the proxy frame object and the number
\* of application listeners are whatever the embedding page made them.
\* The permission state when no check has been made: storage agrees with the
\* browser.
PermissionInSync ==
    /\ currentPermission = storedPermission
    /\ permissionChanges = 0
    /\ checks = <<>>

\* The notify button state before any call of showNotifyButton.
NoNotifyButton ==
    /\ notifyButton = FALSE
    /\ buttonCalls = <<>>

Init ==
    /\ storedPermission = PermissionDefault
    /\ PermissionInSync
    /\ isBrowser = TRUE
    /\ displayPredicate = Undefined
    /\ NoNotifyButton
    /\ windowEnv \in WindowEnvironmentKind
    /\ proxyFrame \in BOOLEAN
    /\ listeners \in 0..MaxListeners
    /\ handlers = [k \in WorkerMessengerCommand |-> <<>>]
    /\ bindCount = 0
    /\ commands = <<>>
    /\ dispatch = <<>>
    /\ events = <<>>
    /\ putCalls = <<>>
    /\ inbox = <<>>
    /\ proxyMessages = <<>>
    /\ now = 0

\* ---------------------------------------------------------------- handlers
\* Variant: the event is triggered only when somebody listens.
OnNotificationDisplayedIfListeners(i, data) ==
    /\ events' = IF listeners > 0
                 THEN Append(events, [event |-> NOTIFICATION_DISPLAYED, data |-> data])
                 ELSE events
    /\ dispatch' = SetAt(dispatch, i, NewDispatch(Fulfilled))
    /\ UNCHANGED <<putCalls, inbox, proxyMessages, now>>

\* Lines 146-149: the NotificationDisplayed handler, run for commands[i].
OnNotificationDisplayed(i, data) ==
    /\ events' = Append(events, [event |-> NOTIFICATION_DISPLAYED, data |-> data])
    /\ dispatch' = SetAt(dispatch, i, NewDispatch(Fulfilled))
    /\ UNCHANGED <<putCalls, inbox, proxyMessages, now>>

\* Lines 213-215: the NotificationDismissed handler.
OnNotificationDismissed(i, data) ==
    /\ events' = Append(events, [event |-> NOTIFICATION_DISMISSED, data |-> data])
    /\ dispatch' = SetAt(dispatch, i, NewDispatch(Fulfilled))
    /\ UNCHANGED <<putCalls, inbox, proxyMessages, now>>

\* Variant: the redirect is also triggered as a local event.
OnRedirectPageBroadcast(i, data) ==
    /\ proxyMessages' =
         IF proxyFrame
         THEN Append(proxyMessages,
                     [command |-> SERVICEWORKER_COMMAND_REDIRECT, data |-> data,
                      for |-> i])
         ELSE proxyMessages
    /\ events' = Append(events, [event |-> RedirectPage, data |-> data])
    /\ dispatch' = SetAt(dispatch, i, NewDispatch(Fulfilled))
    /\ UNCHANGED <<putCalls, inbox, now>>

\* Lines 203-211: the RedirectPage handler.
OnRedirectPage(i, data) ==
    /\ proxyMessages' =
         IF proxyFrame
         THEN Append(proxyMessages,
                     [command |-> SERVICEWORKER_COMMAND_REDIRECT, data |-> data,
                      for |-> i])
         ELSE proxyMessages
    /\ dispatch' = SetAt(dispatch, i, NewDispatch(Fulfilled))
    /\ UNCHANGED <<events, putCalls, inbox, now>>

\* Lines 170-200: the NotificationClicked handler from the point where
\* clickedListenerCallbackCount is known; d is the invocation's record so far.
\* With no listeners it reads Date.now(), calls Database.put and suspends on
\* it; otherwise it triggers the event and returns.
DispatchClicked(i, data, count, d) ==
    IF NoListeners(count)
    THEN \E t \in now..MaxNow :
           /\ now' = t
           /\ putCalls' = Append(putCalls, InboxEntry(data, windowEnv, t))
           /\ dispatch' = SetAt(dispatch, i,
                                [d EXCEPT !.pc = AwaitPut, !.count = count,
                                          !.put = Len(putCalls) + 1])
           /\ UNCHANGED events
    ELSE /\ events' = Append(events, [event |-> NOTIFICATION_CLICKED, data |-> data])
         /\ dispatch' = SetAt(dispatch, i,
                              [d EXCEPT !.pc = Fulfilled, !.count = count])
         /\ UNCHANGED <<putCalls, now>>

\* Variant: the handler asks the controlling frame whenever a proxy frame
\* object exists, whatever the window environment.
OnNotificationClickedIfProxyFrame(i, data) ==
    /\ inbox' = inbox
    /\ IF proxyFrame
       THEN /\ proxyMessages' =
                 Append(proxyMessages,
                        [command |-> GET_EVENT_LISTENER_COUNT,
                         event |-> NOTIFICATION_CLICKED, for |-> i])
            /\ dispatch' = SetAt(dispatch, i, NewDispatch(AwaitReply))
            /\ UNCHANGED <<events, putCalls, now>>
       ELSE /\ DispatchClicked(i, data, listeners, NewDispatch(Fulfilled))
            /\ proxyMessages' = proxyMessages

\* Variant: the handler takes the delegated branch in every environment.
OnNotificationClickedAlwaysDelegating(i, data) ==
    /\ inbox' = inbox
    /\ IF proxyFrame
       THEN /\ proxyMessages' =
                 Append(proxyMessages,
                        [command |-> GET_EVENT_LISTENER_COUNT,
                         event |-> NOTIFICATION_CLICKED, for |-> i])
            /\ dispatch' = SetAt(dispatch, i, NewDispatch(AwaitReply))
       ELSE /\ proxyMessages' = proxyMessages
            /\ dispatch' = SetAt(dispatch, i, NewDispatch(NoResolver))
    /\ UNCHANGED <<events, putCalls, now>>

\* Variant: the delegated query times out at once and the handler goes on
\* as if the controlling frame had no listeners.
OnNotificationClickedTimingOut(i, data) ==
    /\ inbox' = inbox
    /\ IF windowEnv = OneSignalProxyFrame
       THEN IF proxyFrame
            THEN /\ proxyMessages' =
                      Append(proxyMessages,
                             [command |-> GET_EVENT_LISTENER_COUNT,
                              event |-> NOTIFICATION_CLICKED, for |-> i])
                 /\ DispatchClicked(i, data, 0, NewDispatch(Fulfilled))
            ELSE /\ proxyMessages' = proxyMessages
                 /\ dispatch' = SetAt(dispatch, i, NewDispatch(NoResolver))
                 /\ UNCHANGED <<events, putCalls, now>>
       ELSE /\ DispatchClicked(i, data, listeners, NewDispatch(Fulfilled))
            /\ proxyMessages' = proxyMessages

\* Variant: a query is sent only when none is outstanding; a click that
\* arrives meanwhile waits without asking.
OnNotificationClickedDeduplicating(i, data) ==
    /\ inbox' = inbox
    /\ IF windowEnv = OneSignalProxyFrame
       THEN /\ IF proxyFrame
               THEN /\ proxyMessages' =
                         IF \E j \in 1..Len(dispatch) : dispatch[j].pc = AwaitReply
                         THEN proxyMessages
                         ELSE Append(proxyMessages,
                                     [command |-> GET_EVENT_LISTENER_COUNT,
                                      event |-> NOTIFICATION_CLICKED, for |-> i])
                    /\ dispatch' = SetAt(dispatch, i, NewDispatch(AwaitReply))
               ELSE /\ proxyMessages' = proxyMessages
                    /\ dispatch' = SetAt(dispatch, i, NewDispatch(NoResolver))
            /\ UNCHANGED <<events, putCalls, now>>
       ELSE /\ DispatchClicked(i, data, listeners, NewDispatch(Fulfilled))
            /\ proxyMessages' = proxyMessages

\* Lines 151-169: the NotificationClicked handler up to its first suspension.
\* In the proxy frame it asks the controlling frame for the count and
\* suspends; the promise's executor calls nothing when there is no proxy
\* frame object, so nothing can ever resolve that promise.
OnNotificationClicked(i, data) ==
    /\ inbox' = inbox
    /\ IF windowEnv = OneSignalProxyFrame
       THEN /\ IF proxyFrame
               THEN /\ proxyMessages' =
                         Append(proxyMessages,
                                [command |-> GET_EVENT_LISTENER_COUNT,
                                 event |-> NOTIFICATION_CLICKED, for |-> i])
                    /\ dispatch' = SetAt(dispatch, i, NewDispatch(AwaitReply))
               ELSE /\ proxyMessages' = proxyMessages
                    /\ dispatch' = SetAt(dispatch, i, NewDispatch(NoResolver))
            /\ UNCHANGED <<events, putCalls, now>>
       ELSE /\ DispatchClicked(i, data, listeners, NewDispatch(Fulfilled))
            /\ proxyMessages' = proxyMessages

\* The code a callback registered for a command kind runs.
RunCallback(callback, i, data) ==
    CASE callback.handles = NotificationDisplayed -> OnNotificationDisplayed(i, data)
      [] callback.handles = NotificationClicked   -> OnNotificationClicked(i, data)
      [] callback.handles = RedirectPage          -> OnRedirectPage(i, data)
      [] callback.handles = NotificationDismissed -> OnNotificationDismissed(i, data)

\* ----------------------------------------------------------------- actions
\* Variant: binding also empties the application's listener registry.
EstablishServiceWorkerChannelClearingListeners ==
    /\ bindCount < MaxBinds
    /\ bindCount' = bindCount + 1
    /\ handlers' = EstablishedHandlers(handlers, bindCount + 1)
    /\ listeners' = 0
    /\ UNCHANGED <<permissionVars, buttonVars, windowEnv, proxyFrame, commands, dispatch, events,
                   putCalls, inbox, proxyMessages, now>>

\* Lines 142-216: one call of establishServiceWorkerChannel.  It is
\* synchronous, so no command is delivered between its off() and its on()s.
EstablishServiceWorkerChannel ==
    /\ bindCount < MaxBinds
    /\ bindCount' = bindCount + 1
    /\ handlers' = EstablishedHandlers(handlers, bindCount + 1)
    /\ UNCHANGED <<permissionVars, buttonVars, windowEnv, proxyFrame, listeners, commands, dispatch, events,
                   putCalls, inbox, proxyMessages, now>>

\* The urls a command of a kind can carry.  RedirectPage's data is the url
\* itself; only the NotificationClicked handler reads data.url.
CommandUrls(command) ==
    CASE command = NotificationClicked -> PayloadUrls
      [] command = RedirectPage        -> {TargetUrl}
      [] OTHER                         -> {Undefined}

\* The service worker's next command arrives and workerMessenger runs the
\* callback registered for its kind, if any, up to its first suspension.
Deliver(command, url) ==
    /\ Len(commands) < MaxCommands
    /\ LET i    == Len(commands) + 1
           data == Payload(i, url)
       IN  /\ commands' = Append(commands,
                                 [command |-> command, data |-> data,
                                  bound |-> bindCount > 0])
           /\ IF handlers[command] = <<>>
              THEN /\ dispatch' = SetAt(dispatch, i, NewDispatch(Unhandled))
                   /\ UNCHANGED <<events, putCalls, inbox, proxyMessages, now>>
              ELSE RunCallback(Head(handlers[command]), i, data)
    /\ UNCHANGED <<permissionVars, buttonVars, windowEnv, proxyFrame, listeners, handlers, bindCount>>

\* Variant: the reply is ignored and the local registry is counted.
ResolvedCountLocal(reply) == listeners

\* Lines 161-162: the count the reply callback resolves the promise with.
ResolvedCount(reply) == reply

\* Lines 160-166 and 170-200: the controlling frame's reply to the query of
\* commands[i] arrives carrying count n; the promise resolves and the handler
\* continues in the same task's microtasks.
ReplyArrives(i, n) ==
    /\ i \in 1..Len(dispatch)
    /\ dispatch[i].pc = AwaitReply
    /\ DispatchClicked(i, commands[i].data, ResolvedCount(n),
                       [dispatch[i] EXCEPT !.reply = n])
    /\ UNCHANGED <<permissionVars, buttonVars, windowEnv, proxyFrame, listeners, handlers, bindCount, commands,
                   inbox, proxyMessages>>

\* Line 197: the Database.put the handler of commands[i] awaits succeeds;
\* the entry is stored and the handler returns.
PutSucceeds(i) ==
    /\ i \in 1..Len(dispatch)
    /\ dispatch[i].pc = AwaitPut
    /\ inbox' = DatabasePut(inbox, putCalls[dispatch[i].put])
    /\ dispatch' = [dispatch EXCEPT ![i].pc = Fulfilled]
    /\ UNCHANGED <<permissionVars, buttonVars, windowEnv, proxyFrame, listeners, handlers, bindCount, commands,
                   events, putCalls, proxyMessages, now>>

\* Line 197: the Database.put the handler of commands[i] awaits fails.
PutFails(i) ==
    /\ i \in 1..Len(dispatch)
    /\ dispatch[i].pc = AwaitPut
    /\ dispatch' = [dispatch EXCEPT ![i].pc = PutFailureOutcome,
                                    ![i].putFailed = TRUE]
    /\ UNCHANGED <<permissionVars, buttonVars, windowEnv, proxyFrame, listeners, handlers, bindCount, commands,
                   events, putCalls, inbox, proxyMessages, now>>

\* Application code adds or removes a listener of NOTIFICATION_CLICKED: the
\* registry line 168 reads.
AddListener ==
    /\ listeners < MaxListeners
    /\ listeners' = listeners + 1
    /\ UNCHANGED <<permissionVars, buttonVars, windowEnv, proxyFrame, handlers, bindCount, commands, dispatch,
                   events, putCalls, inbox, proxyMessages, now>>

RemoveListener ==
    /\ listeners > 0
    /\ listeners' = listeners - 1
    /\ UNCHANGED <<permissionVars, buttonVars, windowEnv, proxyFrame, handlers, bindCount, commands, dispatch,
                   events, putCalls, inbox, proxyMessages, now>>

\* OneSignal.proxyFrame (lines 155, 207) is assigned.
ProxyFrameCreated ==
    /\ ~proxyFrame
    /\ proxyFrame' = TRUE
    /\ UNCHANGED <<permissionVars, buttonVars, windowEnv, listeners, handlers, bindCount, commands, dispatch,
                   events, putCalls, inbox, proxyMessages, now>>

Next ==
    \/ EstablishServiceWorkerChannel
    \/ \E command \in WorkerMessengerCommand :
         \E url \in CommandUrls(command) : Deliver(command, url)
    \/ \E i \in 1..MaxCommands : \E n \in 0..MaxListeners : ReplyArrives(i, n)
    \/ \E i \in 1..MaxCommands : PutSucceeds(i)
    \/ \E i \in 1..MaxCommands : PutFails(i)
    \/ AddListener
    \/ RemoveListener
    \/ ProxyFrameCreated

Spec == Init /\ [][Next]_vars

\* ------------------------------------------- rebinding during a dispatch
\* Variant: binding abandons the invocations that await a reply.
AcrossBindCancelling(d) ==
    [i \in 1..Len(d) |->
        IF d[i].pc = AwaitReply
        THEN [d[i] EXCEPT !.rebound = TRUE, !.pc = NoResolver]
        ELSE d[i]]

\* The handler invocations as a call of establishServiceWorkerChannel leaves
\* them: nothing in lines 142-216 reaches a suspended invocation; the call is
\* only noted on the invocations that await a reply.
AcrossBind(d) ==
    [i \in 1..Len(d) |->
        IF d[i].pc = AwaitReply THEN [d[i] EXCEPT !.rebound = TRUE] ELSE d[i]]

\* Lines 142-216: EstablishServiceWorkerChannel, noting the call on the
\* invocations in flight.
EstablishServiceWorkerChannelNoting ==
    /\ bindCount < MaxBinds
    /\ bindCount' = bindCount + 1
    /\ handlers' = EstablishedHandlers(handlers, bindCount + 1)
    /\ dispatch' = AcrossBind(dispatch)
    /\ UNCHANGED <<permissionVars, buttonVars, windowEnv, proxyFrame, listeners, commands, events,
                   putCalls, inbox, proxyMessages, now>>

\* The proxy frame context, the only one where a dispatch awaits a reply.  The
\* local listener registry is never read there (line 168 is the other
\* branch), so it is left empty.
InitRebind == Init /\ windowEnv = OneSignalProxyFrame /\ listeners = 0

NextRebind ==
    \/ EstablishServiceWorkerChannelNoting
    \/ \E command \in WorkerMessengerCommand :
         \E url \in CommandUrls(command) : Deliver(command, url)
    \/ \E i \in 1..MaxCommands : \E n \in 0..MaxListeners : ReplyArrives(i, n)
    \/ \E i \in 1..MaxCommands : PutSucceeds(i)
    \/ \E i \in 1..MaxCommands : PutFails(i)
    \/ ProxyFrameCreated

SpecRebind == InitRebind /\ [][NextRebind]_vars

\* ------------------------------------------------------------ Local mode
\* A window environment other than OneSignalProxyFrame: no handler ever awaits
\* a reply there, so no reply arrives.  A Database.put that was called settles:
\* the await of line 197 resumes or throws.
InitLocal == Init /\ windowEnv # OneSignalProxyFrame

NextLocal ==
    \/ EstablishServiceWorkerChannel
    \/ \E command \in WorkerMessengerCommand :
         \E url \in CommandUrls(command) : Deliver(command, url)
    \/ \E i \in 1..MaxCommands : PutSucceeds(i)
    \/ \E i \in 1..MaxCommands : PutFails(i)
    \/ AddListener
    \/ RemoveListener
    \/ ProxyFrameCreated

PutSettles == \A i \in 1..MaxCommands : WF_vars(PutSucceeds(i) \/ PutFails(i))

SpecLocal == InitLocal /\ [][NextLocal]_vars /\ PutSettles

\* ------------------------- checkAndTriggerNotificationPermissionChanged
\* Lines 89-98: the then callback of Promise.all, given both values read.
\* When they differ it calls triggerNotificationPermissionChanged and waits
\* for it; otherwise it does nothing.
ThenCallback(c) ==
    IF c.prev # c.cur
    THEN [c EXCEPT !.pc = Triggering, !.triggered = TRUE]
    ELSE [c EXCEPT !.pc = Done]

\* A read of Promise.all (lines 86-88) has resolved, leaving record c; the
\* then callback runs in the same task once both have.
AfterRead(c) == IF c.prev # Unread /\ c.cur # Unread THEN ThenCallback(c) ELSE c

\* Lines 85-89: a call starts both reads and returns.
CheckAndTriggerNotificationPermissionChanged ==
    /\ Len(checks) < MaxChecks
    /\ checks' = Append(checks, [prev |-> Unread, cur |-> Unread, pc |-> Reading,
                                 triggered |-> FALSE])
    /\ UNCHANGED <<channelVars, buttonVars, storedPermission, currentPermission,
                   permissionChanges>>

\* Line 87: Database.get('Options', 'notificationPermission') resolves with
\* the stored value.
DatabaseGetResolves(k) ==
    /\ k \in 1..Len(checks)
    /\ checks[k].pc = Reading
    /\ checks[k].prev = Unread
    /\ checks' = [checks EXCEPT
                    ![k] = AfterRead([checks[k] EXCEPT !.prev = storedPermission])]
    /\ UNCHANGED <<channelVars, buttonVars, storedPermission, currentPermission,
                   permissionChanges>>

\* Line 88: OneSignal.getNotificationPermission() resolves with the browser's
\* permission.
GetNotificationPermissionResolves(k) ==
    /\ k \in 1..Len(checks)
    /\ checks[k].pc = Reading
    /\ checks[k].cur = Unread
    /\ checks' = [checks EXCEPT
                    ![k] = AfterRead([checks[k] EXCEPT !.cur = currentPermission])]
    /\ UNCHANGED <<channelVars, buttonVars, storedPermission, currentPermission,
                   permissionChanges>>

\* Lines 91-92: triggerNotificationPermissionChanged() resolves; its then
\* callback calls Database.put with the permission this check read.
TriggerResolves(k) ==
    /\ k \in 1..Len(checks)
    /\ checks[k].pc = Triggering
    /\ checks' = [checks EXCEPT ![k].pc = Putting]
    /\ UNCHANGED <<channelVars, buttonVars, storedPermission, currentPermission,
                   permissionChanges>>

\* Lines 92-95: the Database.put stores the permission this check read.
PermissionPutResolves(k) ==
    /\ k \in 1..Len(checks)
    /\ checks[k].pc = Putting
    /\ storedPermission' = checks[k].cur
    /\ checks' = [checks EXCEPT ![k].pc = Done]
    /\ UNCHANGED <<channelVars, buttonVars, currentPermission, permissionChanges>>

\* The user changes the browser's notification permission.
PermissionChanges(p) ==
    /\ permissionChanges < MaxChanges
    /\ p # currentPermission
    /\ currentPermission' = p
    /\ permissionChanges' = permissionChanges + 1
    /\ UNCHANGED <<channelVars, buttonVars, storedPermission, checks>>

\* Storage agrees with the browser when the page starts; the channel is not
\* bound and no notify button is shown.
InitPermission ==
    /\ storedPermission \in NotificationPermission
    /\ PermissionInSync
    /\ isBrowser = TRUE
    /\ displayPredicate = Undefined
    /\ NoNotifyButton
    /\ windowEnv = Host
    /\ proxyFrame = FALSE
    /\ listeners = 0
    /\ handlers = [k \in WorkerMessengerCommand |-> <<>>]
    /\ bindCount = 0
    /\ commands = <<>>
    /\ dispatch = <<>>
    /\ events = <<>>
    /\ putCalls = <<>>
    /\ inbox = <<>>
    /\ proxyMessages = <<>>
    /\ now = 0

NextPermission ==
    \/ CheckAndTriggerNotificationPermissionChanged
    \/ \E k \in 1..MaxChecks : DatabaseGetResolves(k)
    \/ \E k \in 1..MaxChecks : GetNotificationPermissionResolves(k)
    \/ \E k \in 1..MaxChecks : TriggerResolves(k)
    \/ \E k \in 1..MaxChecks : PermissionPutResolves(k)
    \/ \E p \in NotificationPermission : PermissionChanges(p)

SpecPermission == InitPermission /\ [][NextPermission]_vars

\* -------------------------------------------------------- showNotifyButton
\* Line 102: the guard of showNotifyButton.
GuardPasses == isBrowser /\ ~notifyButton

\* Lines 101-125: a call of showNotifyButton; v is what the promise of the
\* display predicate will resolve to, if there is a predicate.  With a
\* predicate the Bell is left to the then callback; without, it is
\* constructed and created at once.
ShowNotifyButton(v) ==
    /\ Len(buttonCalls) < MaxShowCalls
    /\ IF GuardPasses
       THEN IF displayPredicate = PredicateFunction
            THEN /\ buttonCalls' = Append(buttonCalls, [pc |-> AwaitPredicate, value |-> v])
                 /\ notifyButton' = notifyButton
            ELSE /\ buttonCalls' = Append(buttonCalls, [pc |-> Created, value |-> Undefined])
                 /\ notifyButton' = TRUE
       ELSE /\ buttonCalls' = Append(buttonCalls, [pc |-> Skipped, value |-> Undefined])
            /\ notifyButton' = notifyButton
    /\ UNCHANGED <<channelVars, permissionVars, isBrowser, displayPredicate>>

\* Lines 112-119: the predicate's promise resolves and the then callback
\* runs: any value but false constructs a Bell, assigns it to
\* OneSignal.notifyButton and creates it.
PredicateResolves(j) ==
    /\ j \in 1..Len(buttonCalls)
    /\ buttonCalls[j].pc = AwaitPredicate
    /\ IF buttonCalls[j].value # PredicateFalse
       THEN /\ buttonCalls' = [buttonCalls EXCEPT ![j].pc = Created]
            /\ notifyButton' = TRUE
       ELSE /\ buttonCalls' = [buttonCalls EXCEPT ![j].pc = Declined]
            /\ notifyButton' = notifyButton
    /\ UNCHANGED <<channelVars, permissionVars, isBrowser, displayPredicate>>

\* Any environment and configuration; no permission check runs and the
\* channel is not bound.
InitNotifyButton ==
    /\ isBrowser \in BOOLEAN
    /\ displayPredicate \in {Undefined, PredicateFunction}
    /\ NoNotifyButton
    /\ storedPermission = PermissionDefault
    /\ PermissionInSync
    /\ windowEnv = Host
    /\ proxyFrame = FALSE
    /\ listeners = 0
    /\ handlers = [k \in WorkerMessengerCommand |-> <<>>]
    /\ bindCount = 0
    /\ commands = <<>>
    /\ dispatch = <<>>
    /\ events = <<>>
    /\ putCalls = <<>>
    /\ inbox = <<>>
    /\ proxyMessages = <<>>
    /\ now = 0

NextNotifyButton ==
    \/ \E v \in PredicateValues : ShowNotifyButton(v)
    \/ \E j \in 1..MaxShowCalls : PredicateResolves(j)

SpecNotifyButton == InitNotifyButton /\ [][NextNotifyButton]_vars

\* ------------------------------------------------ vocabulary of the claims
Delivered == 1..Len(commands)

\* commands[i] had a callback to run.
Handled(i) == dispatch[i].pc # Unhandled

HandledClicks == {i \in Delivered : commands[i].command = NotificationClicked /\ Handled(i)}

\* Event.trigger calls made for commands[i].
Broadcasts(i) == {j \in 1..Len(events) : events[j].data.id = i}

\* Database.put calls made for commands[i], and the entries stored for it.
Stores(i) == {j \in 1..Len(putCalls) : putCalls[j].data.id = i}
Stored(i) == {j \in 1..Len(inbox) : inbox[j].data.id = i}

\* Messages sent to the controlling frame for commands[i].
Queries(i) ==
    {j \in 1..Len(proxyMessages) :
        proxyMessages[j].for = i /\ proxyMessages[j].command = GET_EVENT_LISTENER_COUNT}
Relays(i) ==
    {j \in 1..Len(proxyMessages) :
        proxyMessages[j].for = i
        /\ proxyMessages[j].command = SERVICEWORKER_COMMAND_REDIRECT}

\* ------------------------------------------------------------------ claims

\* C1: every NotificationClicked command delivered to the installed handler
\* ends with exactly one of {Event.trigger broadcast, Database.put into
\* 'NotificationOpened'}: never both, never neither.  A handler still awaiting
\* the controlling frame's reply has not ended; one awaiting a promise that
\* nothing can resolve has.
C1_ExactlyOneOfBroadcastOrStore ==
    \A i \in HandledClicks :
        /\ Cardinality(Broadcasts(i)) + Cardinality(Stores(i)) <= 1
        /\ dispatch[i].pc # AwaitReply
             => Cardinality(Broadcasts(i)) + Cardinality(Stores(i)) = 1

\* C2: after one or more calls of establishServiceWorkerChannel every command
\* kind has exactly one handler, the one the latest call registered, and a
\* command that arrives once bound is handled, with at most one effect.
C2_BindingIsIdempotent ==
    /\ bindCount >= 1 =>
         \A k \in WorkerMessengerCommand : handlers[k] = <<Callback(k, bindCount)>>
    /\ \A i \in Delivered :
         commands[i].bound =>
            /\ Handled(i)
            /\ Cardinality(Broadcasts(i)) + Cardinality(Stores(i))
                 + Cardinality(Relays(i)) <= 1

\* C2 witness: a command was handled, with its one effect, and the channel
\* has been bound twice.
C2_Witness ==
    /\ bindCount >= 2
    /\ \E i \in Delivered :
         /\ commands[i].bound
         /\ commands[i].command = NotificationDismissed
         /\ Cardinality(Broadcasts(i)) = 1

\* C3 as stated: whatever url the payload carries (anything but an absent
\* url), the url of the entry written for a click without listeners is the
\* payload's url.
C3_UrlPassthroughAnyValue ==
    \A j \in 1..Len(putCalls) :
        putCalls[j].data.url # Undefined => putCalls[j].url = putCalls[j].data.url

\* C3 amended: a payload url that is a non-empty string is written verbatim;
\* an empty string is replaced by the document URL like an absent url.
C3_UrlPassthroughNonEmpty ==
    \A j \in 1..Len(putCalls) :
        /\ putCalls[j].data.url \notin {Undefined, ""}
             => putCalls[j].url = putCalls[j].data.url
        /\ putCalls[j].data.url = ""
             => putCalls[j].url = (IF windowEnv = OneSignalProxyFrame
                                   THEN ProxyFrameHref ELSE PageHref)

\* C3 witness: an entry stored for a click that carried a url and had no
\* listener.
C3_Witness ==
    \E j \in 1..Len(inbox) :
        /\ inbox[j].data.url = TargetUrl
        /\ inbox[j].url = TargetUrl
        /\ dispatch[inbox[j].data.id].count = 0

\* C4: the entry written for a click without url and without listeners has
\* the context's own document URL (in the proxy frame the proxy frame's own,
\* not the controlling frame's) and the command's payload, unmodified, as data.
C4_UrlSubstitution ==
    \A j \in 1..Len(putCalls) :
        putCalls[j].data.url = Undefined =>
            /\ putCalls[j].url = (IF windowEnv = OneSignalProxyFrame
                                  THEN ProxyFrameHref ELSE PageHref)
            /\ putCalls[j].data = commands[putCalls[j].data.id].data
            /\ putCalls[j].data = Payload(putCalls[j].data.id, Undefined)

\* C4 witness: such an entry stored in the proxy frame.
C4_Witness ==
    /\ windowEnv = OneSignalProxyFrame
    /\ \E j \in 1..Len(inbox) :
         /\ inbox[j].data.url = Undefined
         /\ inbox[j].url = ProxyFrameHref
         /\ ProxyFrameHref # ControllingFrameHref

\* C5 as stated: in the proxy frame every dispatched click sends exactly one
\* query.
C5_OneQueryPerClick ==
    windowEnv = OneSignalProxyFrame =>
        \A i \in HandledClicks : Cardinality(Queries(i)) = 1

\* C5 amended: in the proxy frame a click dispatched while a proxy frame
\* object exists sends exactly one query and decides by the count its reply
\* carries, whatever the local registry holds; dispatched with no proxy frame
\* object it sends no query and never decides.
C5_DecisionUsesReply ==
    windowEnv = OneSignalProxyFrame =>
        \A i \in HandledClicks :
            LET d == dispatch[i]
                b == Cardinality(Broadcasts(i))
                p == Cardinality(Stores(i))
            IN  /\ ~proxyFrame => d.pc = NoResolver
                /\ d.pc = NoResolver =>
                     Cardinality(Queries(i)) = 0 /\ b = 0 /\ p = 0
                                                 /\ d.count = Unassigned
                /\ d.pc # NoResolver => Cardinality(Queries(i)) = 1
                /\ d.pc = AwaitReply => b = 0 /\ p = 0 /\ d.reply = Unassigned
                /\ d.pc \notin {NoResolver, AwaitReply} =>
                     /\ d.reply \in 0..MaxListeners
                     /\ d.count = d.reply
                     /\ d.reply = 0 => b = 0 /\ p = 1
                     /\ d.reply > 0 => b = 1 /\ p = 0

\* C5 witness: the local registry holds a listener, the reply said 0, and the
\* click went to Database.put.
C5_Witness ==
    /\ windowEnv = OneSignalProxyFrame
    /\ listeners > 0
    /\ \E i \in HandledClicks :
         /\ dispatch[i].reply = 0
         /\ dispatch[i].pc = AwaitPut
         /\ Cardinality(Stores(i)) = 1

\* C6: a RedirectPage command stores nothing, triggers no event and asks no
\* listener count; at most one relay message goes to the controlling frame,
\* carrying the command's data unchanged.
C6_RedirectOnlyRelays ==
    \A i \in Delivered :
        commands[i].command = RedirectPage =>
            /\ Broadcasts(i) = {}
            /\ Stores(i) = {}
            /\ Stored(i) = {}
            /\ Queries(i) = {}
            /\ Cardinality(Relays(i)) <= 1
            /\ \A j \in Relays(i) :
                 /\ proxyMessages[j].data = commands[i].data
                 /\ proxyMessages[j].data.url = TargetUrl

\* C6 witness: a redirect was relayed.
C6_Witness ==
    \E i \in Delivered :
        /\ commands[i].command = RedirectPage
        /\ Cardinality(Relays(i)) = 1

\* C7: a handled NotificationDisplayed or NotificationDismissed command is
\* triggered exactly once, as its own event with its own payload, in every
\* window environment and whatever the listener count; it stores nothing and
\* sends nothing to the controlling frame.
C7_DisplayedDismissedAlwaysBroadcast ==
    \A i \in Delivered :
        (Handled(i)
         /\ commands[i].command \in {NotificationDisplayed, NotificationDismissed}) =>
            /\ Cardinality(Broadcasts(i)) = 1
            /\ \A j \in Broadcasts(i) :
                 events[j] =
                    [event |-> (IF commands[i].command = NotificationDisplayed
                                THEN NOTIFICATION_DISPLAYED
                                ELSE NOTIFICATION_DISMISSED),
                     data |-> commands[i].data]
            /\ Stores(i) = {}
            /\ Queries(i) = {}
            /\ Relays(i) = {}
            /\ dispatch[i].pc = Fulfilled

\* C7 witness: a display event triggered in the proxy frame before any
\* listener exists and before anything else happened.
C7_Witness ==
    /\ windowEnv = OneSignalProxyFrame
    /\ listeners = 0
    /\ Len(commands) = 1
    /\ commands[1].command = NotificationDisplayed
    /\ Len(events) = 1

\* C8: every Database.put call and every stored entry belongs to a
\* NotificationClicked command whose resolved listener count was 0.
C8_InboxOnlyZeroListenerClicks ==
    /\ \A j \in 1..Len(putCalls) :
         /\ putCalls[j].data.id \in HandledClicks
         /\ dispatch[putCalls[j].data.id].count = 0
    /\ \A j \in 1..Len(inbox) :
         /\ inbox[j].data.id \in HandledClicks
         /\ dispatch[inbox[j].data.id].count = 0
         /\ inbox[j] \in {putCalls[k] : k \in 1..Len(putCalls)}

\* C8 witness: one click was stored and another, with a listener, was not.
C8_Witness ==
    /\ Len(inbox) = 1
    /\ \E i \in HandledClicks :
         /\ dispatch[i].count > 0
         /\ Stored(i) = {}
         /\ Cardinality(Broadcasts(i)) = 1

\* C9: when the Database.put of a click fails, the handler's promise is
\* rejected, the click is not broadcast and nothing is stored for it; the
\* handler rejects for no other reason.
C9_PutFailureRejects ==
    \A i \in Delivered :
        /\ dispatch[i].putFailed =>
             /\ dispatch[i].pc = Rejected
             /\ Broadcasts(i) = {}
             /\ Stored(i) = {}
        /\ dispatch[i].pc = Rejected => dispatch[i].putFailed

\* C9 witness: a put failed for a click that had no listener.
C9_Witness ==
    \E i \in HandledClicks :
        /\ dispatch[i].putFailed
        /\ dispatch[i].count = 0
        /\ Cardinality(Stores(i)) = 1

\* C10: in the proxy frame, a click dispatched without sending a query (there
\* was no proxy frame object) has a resolved listener count and has been
\* broadcast or handed to Database.put.
C10_FallsBackToLocalMode ==
    windowEnv = OneSignalProxyFrame =>
        \A i \in HandledClicks :
            Queries(i) = {} =>
                /\ dispatch[i].count \in 0..MaxListeners
                /\ Cardinality(Broadcasts(i)) + Cardinality(Stores(i)) = 1

\* The step that delivers a command to a registered callback: the command's
\* position.
NewCommand == Len(commands')
DeliveryOf(command) ==
    /\ Len(commands') = Len(commands) + 1
    /\ commands'[NewCommand].command = command
    /\ dispatch'[NewCommand].pc # Unhandled

\* C11 as stated: a dispatched click sends a query if and only if the window
\* environment is OneSignalProxyFrame.
C11_QueryIffProxyFrameEnv ==
    \A i \in HandledClicks : (Queries(i) # {}) <=> (windowEnv = OneSignalProxyFrame)

\* C11, the state part: a query is sent only in the OneSignalProxyFrame
\* environment, and there exactly by the clicks dispatched while a proxy frame
\* object exists; elsewhere no click waits for a reply or has one.
C11_QueryOnlyInProxyFrameEnv ==
    \A i \in HandledClicks :
        /\ Queries(i) # {} => windowEnv = OneSignalProxyFrame
        /\ windowEnv = OneSignalProxyFrame =>
             (Queries(i) # {} <=> dispatch[i].pc # NoResolver)
        /\ windowEnv # OneSignalProxyFrame =>
             /\ Queries(i) = {}
             /\ dispatch[i].reply = Unassigned
             /\ dispatch[i].count \in 0..MaxListeners

\* C11, the step part: outside the OneSignalProxyFrame environment the count a
\* click is dispatched with is the size of the local listener set at that
\* moment, and nothing is sent to the controlling frame, proxy frame object
\* or not.
C11_LocalCountStep ==
    (DeliveryOf(NotificationClicked) /\ windowEnv # OneSignalProxyFrame) =>
        /\ dispatch'[NewCommand].count = listeners
        /\ proxyMessages' = proxyMessages

\* C11 amended: delegated mode is used only in the OneSignalProxyFrame
\* environment (and there only when a proxy frame object exists); in every
\* other environment no query is sent and the count is the local one.
C11_DelegatedOnlyInProxyFrame ==
    []C11_QueryOnlyInProxyFrameEnv /\ [][C11_LocalCountStep]_vars

\* C11 witness: outside the proxy frame environment, with a proxy frame
\* object, a click was dispatched on the local count without a query.
C11_Witness ==
    /\ windowEnv = Host
    /\ proxyFrame
    /\ proxyMessages = <<>>
    /\ Len(commands) = 1
    /\ 1 \in HandledClicks
    /\ dispatch[1].count = listeners
    /\ dispatch[1].count > 0
    /\ Cardinality(Broadcasts(1)) = 1

\* A step that is a call of establishServiceWorkerChannel after the first.
Rebind == bindCount >= 1 /\ bindCount' = bindCount + 1

\* C12 as stated: after establishServiceWorkerChannel is called again the
\* listener set is empty.
C12_RebindClearsListeners == [][Rebind => listeners' = 0]_vars

\* C12 amended: a rebind replaces workerMessenger's command handlers and
\* leaves the listener registry as it is, so a click that arrives in Local
\* mode while a listener is registered, before or after any rebind, is
\* broadcast and not stored.
C12_RebindKeepsListeners ==
    [][/\ Rebind => listeners' = listeners
       /\ (DeliveryOf(NotificationClicked) /\ windowEnv # OneSignalProxyFrame
           /\ listeners > 0) =>
             /\ events' = Append(events, [event |-> NOTIFICATION_CLICKED,
                                          data |-> commands'[NewCommand].data])
             /\ putCalls' = putCalls
             /\ dispatch'[NewCommand].pc = Fulfilled]_vars

\* C12 witness: after a rebind, in Local mode, a listener is registered and
\* a click was broadcast.
C12_Witness ==
    /\ bindCount >= 2
    /\ windowEnv # OneSignalProxyFrame
    /\ listeners > 0
    /\ \E i \in HandledClicks :
         /\ dispatch[i].count > 0
         /\ Cardinality(Broadcasts(i)) = 1
         /\ Stores(i) = {}

\* commands[i] has made its observable effect: a broadcast, a Database.put
\* call or a relay send.
HasEffect(i) == Broadcasts(i) # {} \/ Stores(i) # {} \/ Relays(i) # {}

\* commands[i] is handled by a callback that can make an effect at all: not a
\* click whose promise nothing resolves, not a redirect without proxy frame.
WillAct(i) ==
    /\ Handled(i)
    /\ dispatch[i].pc # NoResolver
    /\ commands[i].command = RedirectPage => Relays(i) # {}

\* The ids of a log's entries are in arrival order.
Ascending(log) ==
    \A j, k \in 1..Len(log) : j < k => log[j].data.id < log[k].data.id

\* C13 as stated: whenever a later command has made its effect, every earlier
\* command has made its own.
C13_EffectsInArrivalOrder ==
    \A i, j \in Delivered :
        (i < j /\ WillAct(i) /\ HasEffect(j)) => HasEffect(i)

\* C13 amended: callbacks start in arrival order and make their broadcast,
\* Database.put call or relay send in the task that delivers the command,
\* hence in arrival order, except a click in the proxy frame: it makes its
\* effect when the reply arrives, and later commands overtake it.
C13_EffectsInArrivalOrderUnlessDelegated ==
    /\ \A i \in Delivered :
         (WillAct(i) /\ dispatch[i].pc # AwaitReply) => HasEffect(i)
    /\ windowEnv # OneSignalProxyFrame =>
         /\ \A i \in Delivered :
              (Handled(i) /\ commands[i].command # RedirectPage) => HasEffect(i)
         /\ Ascending(events)
         /\ Ascending(putCalls)
    /\ Ascending(SelectSeq(events, LAMBDA e : e.event # NOTIFICATION_CLICKED))

\* C13 witness: in Local mode a click without listeners is suspended on its
\* inbox write, its Database.put call made, and the next command has been
\* broadcast.
C13_Witness ==
    /\ windowEnv # OneSignalProxyFrame
    /\ Len(commands) = 2
    /\ 1 \in HandledClicks
    /\ dispatch[1].pc = AwaitPut
    /\ Cardinality(Stores(1)) = 1
    /\ commands[2].command = NotificationDisplayed
    /\ Cardinality(Broadcasts(2)) = 1

\* ------------------------------------------------------------------ C14
\* The handler of commands[i] has gone on past the count: the decision of
\* line 170 is taken and its broadcast or Database.put call is made, once.
Decided(i) ==
    /\ dispatch[i].pc \in {AwaitPut, Fulfilled, Rejected}
    /\ dispatch[i].count # Unassigned
    /\ IF NoListeners(dispatch[i].count)
       THEN Cardinality(Stores(i)) = 1 /\ Broadcasts(i) = {}
       ELSE Cardinality(Broadcasts(i)) = 1 /\ Stores(i) = {}

\* C14: a call of establishServiceWorkerChannel does not cancel a click
\* dispatch suspended on the delegated query: the dispatch still awaits its
\* reply, any reply is still taken, and once it has arrived the dispatch has
\* made its Database.put call or its broadcast.  The call is one synchronous
\* task, so no command arrives between off() and the on() calls; a command
\* that arrives while no handler is registered causes no broadcast, inbox
\* write or relay.
C14_RebindKeepsInFlightDispatch ==
    /\ \A i \in Delivered :
         dispatch[i].rebound =>
            /\ i \in HandledClicks
            /\ dispatch[i].pc # NoResolver
            /\ dispatch[i].pc = AwaitReply =>
                 /\ dispatch[i].reply = Unassigned
                 /\ \A n \in 0..MaxListeners : ENABLED ReplyArrives(i, n)
            /\ dispatch[i].pc # AwaitReply =>
                 /\ dispatch[i].reply # Unassigned
                 /\ Decided(i)
    /\ \A i \in Delivered :
         ~commands[i].bound =>
            /\ ~Handled(i)
            /\ ~HasEffect(i)
            /\ Stored(i) = {}

\* C14 witness: a click was suspended on its query when the second call of
\* establishServiceWorkerChannel ran; its reply has arrived since and it has
\* made its effect, and a command that arrived before the first call has made
\* none.
C14_Witness ==
    /\ bindCount >= 2
    /\ Len(commands) = 2
    /\ ~commands[1].bound
    /\ ~HasEffect(1)
    /\ dispatch[2].rebound
    /\ dispatch[2].reply # Unassigned
    /\ HasEffect(2)

\* ------------------------------------------------------------------ C15
\* C15: the delegated query has no timeout.  In the proxy frame a click
\* dispatch to which no reply has arrived is suspended, with no count, no
\* broadcast, no Database.put call and no inbox entry, however many other
\* tasks have run since; only the arrival of its reply lets it go on.
C15_NoTimeoutOnDelegatedQuery ==
    windowEnv = OneSignalProxyFrame =>
        \A i \in HandledClicks :
            dispatch[i].reply = Unassigned =>
                /\ dispatch[i].pc \in {AwaitReply, NoResolver}
                /\ dispatch[i].count = Unassigned
                /\ Broadcasts(i) = {}
                /\ Stores(i) = {}
                /\ Stored(i) = {}

\* C15 witness: in the proxy frame the first click has sent its query and
\* still awaits the reply, without effect, while a click that arrived after
\* it has been answered and has completed.
C15_Witness ==
    /\ windowEnv = OneSignalProxyFrame
    /\ Len(commands) = 2
    /\ HandledClicks = {1, 2}
    /\ Cardinality(Queries(1)) = 1
    /\ dispatch[1].pc = AwaitReply
    /\ ~HasEffect(1)
    /\ dispatch[2].reply # Unassigned
    /\ dispatch[2].pc = Fulfilled

\* ------------------------------------------------------------------ C16
\* The queries sent to the controlling frame, and the clicks whose handler
\* sent one.
AllQueries ==
    {j \in 1..Len(proxyMessages) : proxyMessages[j].command = GET_EVENT_LISTENER_COUNT}
Asking == {i \in HandledClicks : dispatch[i].pc # NoResolver}

\* C16 as stated: in the proxy frame as many queries are sent as clicks are
\* dispatched.
C16_OneQueryPerDispatchedClick ==
    windowEnv = OneSignalProxyFrame =>
        Cardinality(AllQueries) = Cardinality(HandledClicks)

\* The state part of C16 amended: the clicks dispatched while a proxy frame
\* object exists have sent one query each, none shared; each of them is
\* suspended without effect until its own reply has arrived, and has then
\* decided once, by the count of that reply.  A click dispatched with no proxy
\* frame object has sent no query and has no effect.
C16_EachClickItsOwnQuery ==
    windowEnv = OneSignalProxyFrame =>
        /\ Cardinality(AllQueries) = Cardinality(Asking)
        /\ \A i \in Asking :
             /\ Cardinality(Queries(i)) = 1
             /\ IF dispatch[i].reply = Unassigned
                THEN dispatch[i].pc = AwaitReply /\ ~HasEffect(i)
                ELSE dispatch[i].count = ResolvedCount(dispatch[i].reply) /\ Decided(i)
        /\ \A i \in HandledClicks \ Asking : Queries(i) = {} /\ ~HasEffect(i)

\* The step part: a step in which a suspended dispatch goes on is the arrival
\* of its own reply, and changes no other dispatch.
C16_ResumedByOwnReply ==
    \A i \in 1..Len(dispatch) :
        (dispatch[i].pc = AwaitReply /\ dispatch'[i].pc # AwaitReply) =>
            /\ dispatch'[i].reply \in 0..MaxListeners
            /\ \A j \in 1..Len(dispatch) : j # i => dispatch'[j] = dispatch[j]

\* C16 amended: concurrent delegated queries are not deduplicated and each
\* dispatch is resumed once, by its own reply, when a proxy frame object
\* exists at dispatch.
C16_QueriesNotDeduplicated ==
    []C16_EachClickItsOwnQuery /\ [][C16_ResumedByOwnReply]_vars

\* C16 witness: two clicks arrived in the proxy frame before any reply and two
\* queries are out; the reply to the second has arrived first, with count 1,
\* and that click is broadcast, while the first still awaits its own reply.
C16_Witness ==
    /\ windowEnv = OneSignalProxyFrame
    /\ Len(commands) = 2
    /\ Asking = {1, 2}
    /\ Cardinality(AllQueries) = 2
    /\ dispatch[1].pc = AwaitReply
    /\ dispatch[2].reply = 1
    /\ Cardinality(Broadcasts(2)) = 1

\* ------------------------------------------------------------------ C17
\* The clicks that found no listener, and those of them whose handler has
\* ended.
ZeroListenerClicks ==
    {i \in HandledClicks :
        dispatch[i].count # Unassigned /\ NoListeners(dispatch[i].count)}
Ended(i) == dispatch[i].pc \in {Fulfilled, Rejected}

\* C17 as stated: every zero-listener click dispatch that has ended has added
\* exactly one entry.
C17_EveryZeroListenerClickStored ==
    \A i \in ZeroListenerClicks : Ended(i) => Cardinality(Stored(i)) = 1

\* The state part of C17 amended: the inbox holds exactly one entry for each
\* zero-listener click whose Database.put succeeded, in the order the puts
\* succeeded, and none for any other command.
C17_OneEntryPerSuccessfulPut ==
    /\ \A i \in ZeroListenerClicks :
         Cardinality(Stored(i)) = IF dispatch[i].pc = Fulfilled THEN 1 ELSE 0
    /\ \A i \in Delivered \ ZeroListenerClicks : Stored(i) = {}
    /\ Len(inbox) =
         Cardinality({i \in ZeroListenerClicks : dispatch[i].pc = Fulfilled})
    /\ \A j \in 1..Len(inbox) : \E k \in 1..Len(putCalls) : inbox[j] = putCalls[k]

\* The step part: a step leaves the inbox alone or adds one entry at its end;
\* the entries it held are still there, unchanged and in place.
C17_InboxGrowsAtEnd ==
    \/ inbox' = inbox
    \/ /\ Len(inbox') = Len(inbox) + 1
       /\ SubSeq(inbox', 1, Len(inbox)) = inbox

\* C17 amended: the inbox is append-only, and a zero-listener click adds one
\* entry when its storage write succeeds and none when it fails.
C17_InboxAppendOnly ==
    []C17_OneEntryPerSuccessfulPut /\ [][C17_InboxGrowsAtEnd]_vars

\* C17 witness: two zero-listener clicks with the same url have both been
\* stored, and the inbox holds their two entries.
C17_Witness ==
    /\ Len(inbox) = 2
    /\ inbox[1].url = inbox[2].url
    /\ inbox[1].data.url = inbox[2].data.url
    /\ inbox[1].data.id # inbox[2].data.id
    /\ ZeroListenerClicks = {1, 2}

\* ------------------------------------------------------------------ C18
\* The dispatch of click i has completed with its broadcast done or its inbox
\* entry written.
Completed(i) ==
    /\ i \in Delivered
    /\ dispatch[i].pc = Fulfilled
    /\ \/ Cardinality(Broadcasts(i)) = 1 /\ Stores(i) = {}
       \/ Cardinality(Stored(i)) = 1 /\ Broadcasts(i) = {}

\* The storage write of click i failed instead of returning.
PutFailed(i) == i \in Delivered /\ dispatch[i].putFailed

\* The state part of C18: in Local mode a dispatched click has its count and
\* has made its broadcast or its Database.put call; it is never suspended on
\* anything but that put.
C18_SuspendedOnlyOnPut ==
    \A i \in HandledClicks :
        /\ dispatch[i].pc \in {AwaitPut, Fulfilled, Rejected}
        /\ Decided(i)
        /\ dispatch[i].pc = AwaitPut => NoListeners(dispatch[i].count)
        /\ dispatch[i].pc = Fulfilled => Completed(i)
        /\ dispatch[i].pc = Rejected => dispatch[i].putFailed

\* The step part: the step that receives a click reads the local listener
\* count as it is at that step and takes the decision in the same step.
C18_DecidedOnReceipt ==
    DeliveryOf(NotificationClicked) =>
        /\ listeners' = listeners
        /\ dispatch'[NewCommand].count = listeners
        /\ IF NoListeners(listeners)
           THEN /\ dispatch'[NewCommand].pc = AwaitPut
                /\ Len(putCalls') = Len(putCalls) + 1
                /\ events' = events
           ELSE /\ dispatch'[NewCommand].pc = Fulfilled
                /\ Len(events') = Len(events) + 1
                /\ putCalls' = putCalls

\* C18: in Local mode every click dispatch eventually completes, with the
\* broadcast done or the inbox entry written, unless its storage write fails
\* instead of returning; count and decision are taken on receipt.  A behaviour
\* delivers finitely many commands and a completed dispatch stays completed,
\* so "each dispatched click eventually completes" is: from some point on
\* every dispatched click has completed.
C18_LocalDispatchCompletes ==
    /\ []C18_SuspendedOnlyOnPut
    /\ [][C18_DecidedOnReceipt]_vars
    /\ <>[](\A i \in HandledClicks : Completed(i) \/ PutFailed(i))

\* C18 witness: in Local mode the first click found no listener and its entry
\* is written; a listener was added since and the second click is broadcast.
C18_Witness ==
    /\ windowEnv # OneSignalProxyFrame
    /\ HandledClicks = {1, 2}
    /\ dispatch[1].count = 0
    /\ Completed(1)
    /\ Cardinality(Stored(1)) = 1
    /\ dispatch[2].count = 1
    /\ Completed(2)
    /\ Cardinality(Broadcasts(2)) = 1

\* ------------------------------------------------------------------ C19
\* The calls of checkAndTriggerNotificationPermissionChanged that triggered
\* the permission-changed event.
TriggeringChecks == {k \in 1..Len(checks) : checks[k].triggered}

\* C19: for a single change of the permission the permission-changed event is
\* triggered at most once, however many calls of
\* checkAndTriggerNotificationPermissionChanged there are and however they
\* overlap; without a change it is not triggered.
C19_TriggeredAtMostOncePerChange ==
    permissionChanges <= 1 => Cardinality(TriggeringChecks) <= permissionChanges

\* ------------------------------------------------------------------ C20
\* The calls of showNotifyButton that constructed and created a Bell.
Bells == {j \in 1..Len(buttonCalls) : buttonCalls[j].pc = Created}

\* C20: across any sequence of showNotifyButton calls at most one Bell is
\* constructed and created, and none by a call whose predicate resolved to
\* false.
C20_AtMostOneBell ==
    /\ Cardinality(Bells) <= 1
    /\ \A j \in Bells : buttonCalls[j].value # PredicateFalse

====
